---- MODULE Spec2Model ----
(***************************************************************************)
(* A model of 15Puzzle.py: the 4x4 sliding-tile board, the Manhattan       *)
(* heuristic, neighbor generation and the greedy best-first search with    *)
(* its path reconstruction.                                                *)
(*                                                                         *)
(* A Python list is a sequence; Python's 0-based index i is element i + 1  *)
(* of the sequence (see At).  Index values stored by the program           *)
(* (parent_index, frontier_indices, positions) keep their 0-based values.  *)
(***************************************************************************)
EXTENDS Integers, Sequences, FiniteSets, TLC

VARIABLES
    starting_board,                 \* argument of greedy_best_first_search
    maximum_number_of_expansions,   \* argument of greedy_best_first_search
    list_of_all_boards,             \* the registry
    parent_index,                   \* parent links
    frontier_indices,               \* the frontier
    number_of_expanded_boards,      \* the expansion counter
    best_board_index,               \* index selected in the current iteration
    neighbor_boards,                \* neighbors of the current board still to be visited
    index,                          \* cursor of the backward parent walk
    path_indices,                   \* indices collected by the backward walk
    path_of_boards,                 \* the returned path (<<>> until it is built)
    pc,                             \* position in greedy_best_first_search
    invocation,                     \* which call of the function this is (1 or 2)
    history,                        \* the loop states the current call has passed through
    previous,                       \* what the first call passed through and returned
    board,                          \* input of the pure board functions
    exchanges,                      \* how many exchanges produced board from its seed
    score,                          \* compute_manhattan_total(board)
    neighbors_of_board,             \* generate_all_neighbor_boards(board)
    inverse_neighbors,              \* generate_all_neighbor_boards of each neighbor
    neighbor_scores                 \* compute_manhattan_total of each neighbor

search_vars == <<starting_board, maximum_number_of_expansions, list_of_all_boards,
                 parent_index, frontier_indices, number_of_expanded_boards,
                 best_board_index, neighbor_boards, index, path_indices,
                 path_of_boards, pc, invocation, history, previous>>

board_vars == <<board, exchanges, score, neighbors_of_board, inverse_neighbors,
                neighbor_scores>>

vars == <<search_vars, board_vars>>

----------------------------------------------------------------------------
(* Bounds of the model. *)

\* Expansion limits 0..MaxLimit are tried for every start board.
MaxLimit == 5

\* Start boards are the boards within MaxScramble slides of the goal, and
\* their unsolvable twins.
MaxScramble == 4

\* Inputs of the pure functions are the seed boards after at most
\* MaxExchanges exchanges of two cells.
MaxExchanges == 1

----------------------------------------------------------------------------
(* Program constants. *)

CELLS == 16          \* range(16)
SIDE == 4            \* position // 4, position % 4
LAST == 3            \* empty_row < 3, empty_column < 3
NO_PARENT == -1      \* parent_index = [-1]
NOT_FOUND == -1      \* find_board_index returns -1
DEFAULT_LIMIT == 100000

GOAL_BOARD == <<1, 2, 3, 4,
                5, 6, 7, 8,
                9, 10, 11, 12,
                13, 14, 15, 0>>

\* The prepared example board of read_board_from_user.
example_board == <<5, 1, 2, 3,
                   9, 6, 7, 4,
                   13, 10, 11, 8,
                   0, 14, 15, 12>>

----------------------------------------------------------------------------
(* Python lists. *)

\* l[i]: a negative i counts from the end of the list.
At(l, i) == IF i >= 0 THEN l[i + 1] ELSE l[Len(l) + i + 1]

\* Whether l[i] is evaluated without IndexError.
InRange(l, i) == -Len(l) <= i /\ i < Len(l)

\* l with l[i] = v.
Store(l, i, v) == [l EXCEPT ![IF i >= 0 THEN i + 1 ELSE Len(l) + i + 1] = v]

\* l after l.pop(i), for 0 <= i < len(l).
Pop(l, i) == [k \in 1..(Len(l) - 1) |-> IF k <= i THEN l[k] ELSE l[k + 1]]

\* l after l.reverse().
Reverse(l) == [k \in 1..Len(l) |-> l[Len(l) + 1 - k]]

\* abs(x)
Abs(x) == IF x < 0 THEN -x ELSE x

\* Whether l.index(v) finds v (otherwise it raises ValueError).
Contains(l, v) == \E k \in 1..Len(l) : l[k] = v

\* l.index(v): the first index holding v.
IndexOf(l, v) == (CHOOSE k \in 1..Len(l) : l[k] = v /\ \A j \in 1..(k - 1) : l[j] # v) - 1

----------------------------------------------------------------------------
(* compute_manhattan_total *)

\* tile_distance without the test that skips the empty tile.
tile_distance_counts_blank(b, position) ==
    LET tile_value == At(b, position)
        current_row == position \div SIDE
        current_column == position % SIDE
        goal_position == tile_value - 1
        goal_row == goal_position \div SIDE
        goal_column == goal_position % SIDE
    IN  Abs(current_row - goal_row) + Abs(current_column - goal_column)

\* tile_distance counting the rows only.
tile_distance_rows_only(b, position) ==
    LET tile_value == At(b, position)
        current_row == position \div SIDE
        goal_position == tile_value - 1
        goal_row == goal_position \div SIDE
    IN  IF tile_value = 0
        THEN 0
        ELSE Abs(current_row - goal_row)

\* The distance one position adds to the total.
tile_distance(b, position) ==
    LET tile_value == At(b, position)
        current_row == position \div SIDE
        current_column == position % SIDE
        goal_position == tile_value - 1
        goal_row == goal_position \div SIDE
        goal_column == goal_position % SIDE
    IN  IF tile_value = 0
        THEN 0
        ELSE Abs(current_row - goal_row) + Abs(current_column - goal_column)

RECURSIVE total_from(_, _)
\* The sum the loop adds for positions position..15.
total_from(b, position) ==
    IF position >= CELLS
    THEN 0
    ELSE tile_distance(b, position) + total_from(b, position + 1)

compute_manhattan_total(b) == total_from(b, 0)

----------------------------------------------------------------------------
(* generate_all_neighbor_boards *)

\* possible_shifts with the leftmost-column test always passing.
possible_shifts_no_left_edge(index_of_empty) ==
    LET empty_row == index_of_empty \div SIDE
        empty_column == index_of_empty % SIDE
    IN  (IF empty_row > 0 THEN <<-SIDE>> ELSE <<>>)
        \o (IF empty_row < LAST THEN <<SIDE>> ELSE <<>>)
        \o (IF empty_column >= 0 THEN <<-1>> ELSE <<>>)
        \o (IF empty_column < LAST THEN <<1>> ELSE <<>>)

\* possible_shifts with the bottom-row test off by one.
possible_shifts_past_bottom(index_of_empty) ==
    LET empty_row == index_of_empty \div SIDE
        empty_column == index_of_empty % SIDE
    IN  (IF empty_row > 0 THEN <<-SIDE>> ELSE <<>>)
        \o (IF empty_row <= LAST THEN <<SIDE>> ELSE <<>>)
        \o (IF empty_column > 0 THEN <<-1>> ELSE <<>>)
        \o (IF empty_column < LAST THEN <<1>> ELSE <<>>)

\* The shifts the four tests append, in the order they are appended.
possible_shifts(index_of_empty) ==
    LET empty_row == index_of_empty \div SIDE
        empty_column == index_of_empty % SIDE
    IN  (IF empty_row > 0 THEN <<-SIDE>> ELSE <<>>)
        \o (IF empty_row < LAST THEN <<SIDE>> ELSE <<>>)
        \o (IF empty_column > 0 THEN <<-1>> ELSE <<>>)
        \o (IF empty_column < LAST THEN <<1>> ELSE <<>>)

\* swapped_board with the second store reading the cell the first store has
\* already overwritten, instead of temporary.
swapped_board_no_temporary(b, index_of_empty, new_empty_position) ==
    LET new_board == b
        first == Store(new_board, index_of_empty, At(new_board, new_empty_position))
    IN  Store(first, new_empty_position, At(first, index_of_empty))

\* The copy of b with the cells index_of_empty and new_empty_position exchanged.
swapped_board(b, index_of_empty, new_empty_position) ==
    LET new_board == b
        temporary == At(new_board, index_of_empty)
        first == Store(new_board, index_of_empty, At(new_board, new_empty_position))
    IN  Store(first, new_empty_position, temporary)

\* Whether the call raises: board.index(0) finds no 0, or a swap indexes
\* outside the list.
neighbors_raise(b) ==
    \/ ~Contains(b, 0)
    \/ LET index_of_empty == IndexOf(b, 0)
           shifts == possible_shifts(index_of_empty)
       IN  \E k \in 1..Len(shifts) :
               \/ ~InRange(b, index_of_empty)
               \/ ~InRange(b, index_of_empty + shifts[k])

generate_all_neighbor_boards(b) ==
    LET index_of_empty == IndexOf(b, 0)
        shifts == possible_shifts(index_of_empty)
    IN  [k \in 1..Len(shifts) |->
            swapped_board(b, index_of_empty, index_of_empty + shifts[k])]

----------------------------------------------------------------------------
(* boards_are_equal, find_board_index *)

boards_are_equal(board_a, board_b) ==
    \A position \in 0..(CELLS - 1) : At(board_a, position) = At(board_b, position)

\* find_board_index with the scan starting at index 1: the first board of the
\* list is never compared.
find_board_index_skips_first(boards, b) ==
    IF \E k \in 2..Len(boards) : boards_are_equal(boards[k], b)
    THEN (CHOOSE k \in 2..Len(boards) :
              /\ boards_are_equal(boards[k], b)
              /\ \A j \in 2..(k - 1) : ~boards_are_equal(boards[j], b)) - 1
    ELSE NOT_FOUND

find_board_index(boards, b) ==
    IF \E k \in 1..Len(boards) : boards_are_equal(boards[k], b)
    THEN (CHOOSE k \in 1..Len(boards) :
              /\ boards_are_equal(boards[k], b)
              /\ \A j \in 1..(k - 1) : ~boards_are_equal(boards[j], b)) - 1
    ELSE NOT_FOUND

----------------------------------------------------------------------------
(* The inputs: valid boards, built without the functions under study. *)

Positions == 0..(CELLS - 1)

\* Two cells next to each other in a row or in a column of the grid.
Adjacent(p, q) ==
    \/ (p \div SIDE) = (q \div SIDE) /\ Abs((p % SIDE) - (q % SIDE)) = 1
    \/ (p % SIDE) = (q % SIDE) /\ Abs((p \div SIDE) - (q \div SIDE)) = 1

\* b with the contents of cells p and q exchanged, every other cell unchanged.
Exchanged(b, p, q) ==
    [k \in 1..Len(b) |-> IF k = p + 1 THEN b[q + 1] ELSE IF k = q + 1 THEN b[p + 1] ELSE b[k]]

\* The boards one legal slide away from b.
Slides(b) ==
    {Exchanged(b, p, q) : <<p, q>> \in {pq \in Positions \X Positions :
                                           b[pq[1] + 1] = 0 /\ Adjacent(pq[1], pq[2])}}

RECURSIVE Scrambled(_)
\* The boards at most k slides away from the goal.
Scrambled(k) ==
    IF k = 0
    THEN {GOAL_BOARD}
    ELSE LET S == Scrambled(k - 1) IN S \cup UNION {Slides(b) : b \in S}

\* b with its first two tiles exchanged: the blank stays, the parity flips, so
\* the twin of a solvable board is unsolvable.
Twin(b) ==
    LET tiles == {p \in Positions : b[p + 1] # 0}
        p1 == CHOOSE p \in tiles : \A q \in tiles : p <= q
        p2 == CHOOSE p \in tiles \ {p1} : \A q \in tiles \ {p1} : p <= q
    IN  Exchanged(b, p1, p2)

IsValidBoard(b) ==
    /\ Len(b) = CELLS
    /\ \A v \in Positions : Cardinality({k \in 1..Len(b) : b[k] = v}) = 1

StartBoards == LET S == Scrambled(MaxScramble) IN S \cup {Twin(b) : b \in S}

\* Boards the command surface is run on, with the default expansion limit.
two_slides_board == <<1, 2, 3, 4, 5, 6, 7, 8, 9, 10, 11, 12, 13, 0, 14, 15>>

\* A board five slides from the goal on which the search expands a board that
\* is not on the path it returns.
detour_board == <<1, 2, 3, 4, 5, 6, 11, 7, 9, 10, 8, 0, 13, 14, 15, 12>>

MainBoards == {example_board, two_slides_board, GOAL_BOARD, detour_board}

SeedBoards ==
    {GOAL_BOARD, example_board, two_slides_board,
     <<1, 2, 3, 4, 5, 6, 7, 8, 9, 10, 11, 12, 13, 14, 0, 15>>,
     <<0, 1, 2, 3, 4, 5, 6, 7, 8, 9, 10, 11, 12, 13, 14, 15>>,
     <<15, 14, 13, 12, 11, 10, 9, 8, 7, 6, 5, 4, 3, 2, 1, 0>>,
     <<6, 13, 7, 10, 8, 9, 11, 0, 15, 2, 12, 5, 14, 3, 1, 4>>}

----------------------------------------------------------------------------
(* greedy_best_first_search *)

\* What one state of the search loop holds.
Snapshot ==
    [registry |-> list_of_all_boards,
     parents |-> parent_index,
     frontier |-> frontier_indices,
     counter |-> number_of_expanded_boards]

\* Every step of a call is added to the record of what the call passed through.
Record == history' = Append(history, Snapshot')

Returned == {"returned_path", "returned_none"}

board_idle ==
    /\ board = <<>>
    /\ exchanges = 0
    /\ score = 0
    /\ neighbors_of_board = <<>>
    /\ inverse_neighbors = <<>>
    /\ neighbor_scores = <<>>

\* A call about to be made: the arguments are chosen, no local exists yet.
Init ==
    /\ \/ /\ starting_board \in StartBoards
          /\ maximum_number_of_expansions \in 0..MaxLimit
       \/ /\ starting_board \in MainBoards
          /\ maximum_number_of_expansions = DEFAULT_LIMIT
    /\ list_of_all_boards = <<>>
    /\ parent_index = <<>>
    /\ frontier_indices = <<>>
    /\ number_of_expanded_boards = 0
    /\ best_board_index = 0
    /\ neighbor_boards = <<>>
    /\ index = 0
    /\ path_indices = <<>>
    /\ path_of_boards = <<>>
    /\ pc = "call"
    /\ invocation = 1
    /\ history = <<>>
    /\ previous = [trace |-> <<>>, outcome |-> "none", path |-> <<>>, count |-> 0]
    /\ board_idle

\* Enter with the registry, the parent links, the frontier and the counter
\* created once and kept from call to call.
Enter_persistent ==
    /\ pc = "call"
    /\ IF list_of_all_boards = <<>>
       THEN /\ list_of_all_boards' = <<starting_board>>
            /\ parent_index' = <<NO_PARENT>>
            /\ frontier_indices' = <<0>>
            /\ number_of_expanded_boards' = 0
       ELSE UNCHANGED <<list_of_all_boards, parent_index, frontier_indices,
                        number_of_expanded_boards>>
    /\ best_board_index' = 0
    /\ neighbor_boards' = <<>>
    /\ index' = 0
    /\ path_indices' = <<>>
    /\ path_of_boards' = <<>>
    /\ pc' = "while"
    /\ history' = <<Snapshot'>>
    /\ UNCHANGED <<starting_board, maximum_number_of_expansions, invocation, previous>>
    /\ UNCHANGED board_vars

\* Function entry: the registry, the parent links, the frontier and the
\* counter are created.
Enter ==
    /\ pc = "call"
    /\ list_of_all_boards' = <<starting_board>>
    /\ parent_index' = <<NO_PARENT>>
    /\ frontier_indices' = <<0>>
    /\ number_of_expanded_boards' = 0
    /\ best_board_index' = 0
    /\ neighbor_boards' = <<>>
    /\ index' = 0
    /\ path_indices' = <<>>
    /\ path_of_boards' = <<>>
    /\ pc' = "while"
    /\ history' = <<Snapshot'>>
    /\ UNCHANGED <<starting_board, maximum_number_of_expansions, invocation, previous>>
    /\ UNCHANGED board_vars

\* loop_continues with <= for <.
loop_continues_inclusive ==
    /\ Len(frontier_indices) > 0
    /\ number_of_expanded_boards <= maximum_number_of_expansions

\* loop_continues stopping one expansion early.
loop_continues_early ==
    /\ Len(frontier_indices) > 0
    /\ number_of_expanded_boards + 1 < maximum_number_of_expansions

\* loop_continues without the test of the counter.
loop_continues_unbounded ==
    Len(frontier_indices) > 0

\* The condition of the while loop.
loop_continues ==
    /\ Len(frontier_indices) > 0
    /\ number_of_expanded_boards < maximum_number_of_expansions

RECURSIVE best_position_from_last_on_tie(_, _, _, _)
\* best_position_from with <= for <: on equal scores the later entry wins.
best_position_from_last_on_tie(frontier, boards, position_in_frontier, best_frontier_position) ==
    IF position_in_frontier >= Len(frontier)
    THEN best_frontier_position
    ELSE LET current_index == At(frontier, position_in_frontier)
             current_board == At(boards, current_index)
             current_score == compute_manhattan_total(current_board)
             best_score == compute_manhattan_total(
                               At(boards, At(frontier, best_frontier_position)))
         IN  IF current_score <= best_score
             THEN best_position_from_last_on_tie(frontier, boards,
                      position_in_frontier + 1, position_in_frontier)
             ELSE best_position_from_last_on_tie(frontier, boards,
                      position_in_frontier + 1, best_frontier_position)

RECURSIVE best_position_from(_, _, _, _)
\* The scan of the frontier from position_in_frontier on: the position kept as
\* best_frontier_position when the scan ends.
best_position_from(frontier, boards, position_in_frontier, best_frontier_position) ==
    IF position_in_frontier >= Len(frontier)
    THEN best_frontier_position
    ELSE LET current_index == At(frontier, position_in_frontier)
             current_board == At(boards, current_index)
             current_score == compute_manhattan_total(current_board)
             best_score == compute_manhattan_total(
                               At(boards, At(frontier, best_frontier_position)))
         IN  IF current_score < best_score
             THEN best_position_from(frontier, boards, position_in_frontier + 1,
                                     position_in_frontier)
             ELSE best_position_from(frontier, boards, position_in_frontier + 1,
                                     best_frontier_position)

\* The selection without its scan: the first frontier entry is always chosen.
best_frontier_position_first == 0

\* The selection with > for <: the first frontier entry with the greatest
\* score is chosen.
best_frontier_position_largest ==
    LET score_at(j) == compute_manhattan_total(
                           At(list_of_all_boards, At(frontier_indices, j)))
        last == Len(frontier_indices) - 1
    IN  CHOOSE j \in 0..last :
            /\ \A k \in 0..last : score_at(k) <= score_at(j)
            /\ \A k \in 0..(j - 1) : score_at(k) < score_at(j)

\* The frontier position the selection chooses.
best_frontier_position == best_position_from(frontier_indices, list_of_all_boards, 1, 0)

\* SelectBest with the counter incremented after the goal test: the selection
\* of the goal board is not counted.
SelectBest_counts_after_goal_test ==
    /\ pc = "while"
    /\ loop_continues
    /\ best_board_index' = At(frontier_indices, best_frontier_position)
    /\ frontier_indices' = Pop(frontier_indices, best_frontier_position)
    /\ number_of_expanded_boards' =
           IF boards_are_equal(At(list_of_all_boards,
                                  At(frontier_indices, best_frontier_position)),
                               GOAL_BOARD)
           THEN number_of_expanded_boards
           ELSE number_of_expanded_boards + 1
    /\ pc' = "goal_test"
    /\ UNCHANGED <<starting_board, maximum_number_of_expansions, list_of_all_boards,
                   parent_index, neighbor_boards, index, path_indices, path_of_boards,
                   invocation, previous>>
    /\ UNCHANGED board_vars
    /\ Record

\* One pass of the loop head: the board with the smallest score is chosen,
\* removed from the frontier and counted.
SelectBest ==
    /\ pc = "while"
    /\ loop_continues
    /\ best_board_index' = At(frontier_indices, best_frontier_position)
    /\ frontier_indices' = Pop(frontier_indices, best_frontier_position)
    /\ number_of_expanded_boards' = number_of_expanded_boards + 1
    /\ pc' = "goal_test"
    /\ UNCHANGED <<starting_board, maximum_number_of_expansions, list_of_all_boards,
                   parent_index, neighbor_boards, index, path_indices, path_of_boards,
                   invocation, previous>>
    /\ UNCHANGED board_vars
    /\ Record

\* The loop ends without the goal: return None and the counter.
ReturnNone ==
    /\ pc = "while"
    /\ ~loop_continues
    /\ pc' = "returned_none"
    /\ UNCHANGED <<starting_board, maximum_number_of_expansions, list_of_all_boards,
                   parent_index, frontier_indices, number_of_expanded_boards,
                   best_board_index, neighbor_boards, index, path_indices,
                   path_of_boards, invocation, previous>>
    /\ UNCHANGED board_vars
    /\ Record

\* The board chosen by the selection.
current_board == At(list_of_all_boards, best_board_index)

\* The chosen board is the goal: the backward walk starts.
GoalFound ==
    /\ pc = "goal_test"
    /\ boards_are_equal(current_board, GOAL_BOARD)
    /\ path_indices' = <<>>
    /\ index' = best_board_index
    /\ pc' = "walk"
    /\ UNCHANGED <<starting_board, maximum_number_of_expansions, list_of_all_boards,
                   parent_index, frontier_indices, number_of_expanded_boards,
                   best_board_index, neighbor_boards, path_of_boards, invocation,
                   previous>>
    /\ UNCHANGED board_vars
    /\ Record

\* One pass of the walk: the index is collected and its parent is next.
WalkStep ==
    /\ pc = "walk"
    /\ index # NO_PARENT
    /\ IF InRange(parent_index, index)
       THEN /\ path_indices' = Append(path_indices, index)
            /\ index' = At(parent_index, index)
            /\ pc' = "walk"
       ELSE /\ pc' = "error"
            /\ UNCHANGED <<path_indices, index>>
    /\ UNCHANGED <<starting_board, maximum_number_of_expansions, list_of_all_boards,
                   parent_index, frontier_indices, number_of_expanded_boards,
                   best_board_index, neighbor_boards, path_of_boards, invocation,
                   previous>>
    /\ UNCHANGED board_vars
    /\ Record

\* ReturnPath without path_indices.reverse().
ReturnPath_no_reverse ==
    /\ pc = "walk"
    /\ index = NO_PARENT
    /\ IF \A k \in 1..Len(path_indices) : InRange(list_of_all_boards, path_indices[k])
       THEN /\ path_of_boards' = [k \in 1..Len(path_indices) |->
                                      At(list_of_all_boards, path_indices[k])]
            /\ pc' = "returned_path"
       ELSE /\ pc' = "error"
            /\ UNCHANGED path_of_boards
    /\ UNCHANGED <<starting_board, maximum_number_of_expansions, list_of_all_boards,
                   parent_index, frontier_indices, number_of_expanded_boards,
                   best_board_index, neighbor_boards, index, path_indices, invocation,
                   previous>>
    /\ UNCHANGED board_vars
    /\ Record

\* The walk has reached the start: the indices are reversed, the boards are
\* collected and returned with the counter.
ReturnPath ==
    /\ pc = "walk"
    /\ index = NO_PARENT
    /\ LET reversed == Reverse(path_indices)
       IN  IF \A k \in 1..Len(reversed) : InRange(list_of_all_boards, reversed[k])
           THEN /\ path_indices' = reversed
                /\ path_of_boards' = [k \in 1..Len(reversed) |->
                                          At(list_of_all_boards, reversed[k])]
                /\ pc' = "returned_path"
           ELSE /\ pc' = "error"
                /\ UNCHANGED <<path_indices, path_of_boards>>
    /\ UNCHANGED <<starting_board, maximum_number_of_expansions, list_of_all_boards,
                   parent_index, frontier_indices, number_of_expanded_boards,
                   best_board_index, neighbor_boards, index, invocation, previous>>
    /\ UNCHANGED board_vars
    /\ Record

\* The chosen board is not the goal: its neighbors are generated.
ExpandBoard ==
    /\ pc = "goal_test"
    /\ ~boards_are_equal(current_board, GOAL_BOARD)
    /\ IF neighbors_raise(current_board)
       THEN /\ pc' = "error"
            /\ UNCHANGED neighbor_boards
       ELSE /\ neighbor_boards' = generate_all_neighbor_boards(current_board)
            /\ pc' = "for_neighbor"
    /\ UNCHANGED <<starting_board, maximum_number_of_expansions, list_of_all_boards,
                   parent_index, frontier_indices, number_of_expanded_boards,
                   best_board_index, index, path_indices, path_of_boards, invocation,
                   previous>>
    /\ UNCHANGED board_vars
    /\ Record

\* VisitNeighbor recording the just-expanded board as the parent of a board
\* that is already in the registry.
VisitNeighbor_reparent ==
    /\ pc = "for_neighbor"
    /\ neighbor_boards # <<>>
    /\ LET neighbor == Head(neighbor_boards)
           existing_index == find_board_index(list_of_all_boards, neighbor)
       IN  IF existing_index = NOT_FOUND
           THEN /\ list_of_all_boards' = Append(list_of_all_boards, neighbor)
                /\ parent_index' = Append(parent_index, best_board_index)
                /\ frontier_indices' = Append(frontier_indices, Len(list_of_all_boards') - 1)
           ELSE /\ parent_index' = Store(parent_index, existing_index, best_board_index)
                /\ UNCHANGED <<list_of_all_boards, frontier_indices>>
    /\ neighbor_boards' = Tail(neighbor_boards)
    /\ pc' = "for_neighbor"
    /\ UNCHANGED <<starting_board, maximum_number_of_expansions,
                   number_of_expanded_boards, best_board_index, index, path_indices,
                   path_of_boards, invocation, previous>>
    /\ UNCHANGED board_vars
    /\ Record

\* VisitNeighbor adding a board that is already in the registry to the
\* frontier again.
VisitNeighbor_requeue ==
    /\ pc = "for_neighbor"
    /\ neighbor_boards # <<>>
    /\ LET neighbor == Head(neighbor_boards)
           existing_index == find_board_index(list_of_all_boards, neighbor)
       IN  IF existing_index = NOT_FOUND
           THEN /\ list_of_all_boards' = Append(list_of_all_boards, neighbor)
                /\ parent_index' = Append(parent_index, best_board_index)
                /\ frontier_indices' = Append(frontier_indices, Len(list_of_all_boards') - 1)
           ELSE /\ frontier_indices' = Append(frontier_indices, existing_index)
                /\ UNCHANGED <<list_of_all_boards, parent_index>>
    /\ neighbor_boards' = Tail(neighbor_boards)
    /\ pc' = "for_neighbor"
    /\ UNCHANGED <<starting_board, maximum_number_of_expansions,
                   number_of_expanded_boards, best_board_index, index, path_indices,
                   path_of_boards, invocation, previous>>
    /\ UNCHANGED board_vars
    /\ Record

\* VisitNeighbor recording the last board of the registry, instead of the
\* just-expanded board, as the parent of a new board.
VisitNeighbor_parent_is_last ==
    /\ pc = "for_neighbor"
    /\ neighbor_boards # <<>>
    /\ LET neighbor == Head(neighbor_boards)
           existing_index == find_board_index(list_of_all_boards, neighbor)
       IN  IF existing_index = NOT_FOUND
           THEN /\ list_of_all_boards' = Append(list_of_all_boards, neighbor)
                /\ parent_index' = Append(parent_index, Len(list_of_all_boards) - 1)
                /\ frontier_indices' = Append(frontier_indices, Len(list_of_all_boards') - 1)
           ELSE UNCHANGED <<list_of_all_boards, parent_index, frontier_indices>>
    /\ neighbor_boards' = Tail(neighbor_boards)
    /\ pc' = "for_neighbor"
    /\ UNCHANGED <<starting_board, maximum_number_of_expansions,
                   number_of_expanded_boards, best_board_index, index, path_indices,
                   path_of_boards, invocation, previous>>
    /\ UNCHANGED board_vars
    /\ Record

\* One pass of the loop over the neighbors: a board not in the registry is
\* appended with its parent and added to the frontier; a known one is dropped.
VisitNeighbor ==
    /\ pc = "for_neighbor"
    /\ neighbor_boards # <<>>
    /\ LET neighbor == Head(neighbor_boards)
           existing_index == find_board_index(list_of_all_boards, neighbor)
       IN  IF existing_index = NOT_FOUND
           THEN /\ list_of_all_boards' = Append(list_of_all_boards, neighbor)
                /\ parent_index' = Append(parent_index, best_board_index)
                /\ frontier_indices' = Append(frontier_indices, Len(list_of_all_boards') - 1)
           ELSE UNCHANGED <<list_of_all_boards, parent_index, frontier_indices>>
    /\ neighbor_boards' = Tail(neighbor_boards)
    /\ pc' = "for_neighbor"
    /\ UNCHANGED <<starting_board, maximum_number_of_expansions,
                   number_of_expanded_boards, best_board_index, index, path_indices,
                   path_of_boards, invocation, previous>>
    /\ UNCHANGED board_vars
    /\ Record

\* Every neighbor has been visited: back to the loop condition.
NextIteration ==
    /\ pc = "for_neighbor"
    /\ neighbor_boards = <<>>
    /\ pc' = "while"
    /\ UNCHANGED <<starting_board, maximum_number_of_expansions, list_of_all_boards,
                   parent_index, frontier_indices, number_of_expanded_boards,
                   best_board_index, neighbor_boards, index, path_indices,
                   path_of_boards, invocation, previous>>
    /\ UNCHANGED board_vars
    /\ Record

Next ==
    \/ Enter
    \/ SelectBest
    \/ ReturnNone
    \/ GoalFound
    \/ WalkStep
    \/ ReturnPath
    \/ ExpandBoard
    \/ VisitNeighbor
    \/ NextIteration

Spec == Init /\ [][Next]_vars

\* The function runs on one thread with nothing to wait for: a step that can
\* be taken is taken.
FairSpec == Spec /\ WF_vars(Next)

----------------------------------------------------------------------------
(* A second call of the function with the same arguments. *)

\* The first call has returned; what it passed through and returned is kept
\* for comparison, and the function is called again.  The objects of the
\* finished call are left as they are: it is for Enter to create new ones.
Reinvoke ==
    /\ pc \in Returned
    /\ invocation = 1
    /\ previous' = [trace |-> history, outcome |-> pc, path |-> path_of_boards,
                    count |-> number_of_expanded_boards]
    /\ invocation' = 2
    /\ history' = <<>>
    /\ pc' = "call"
    /\ UNCHANGED <<starting_board, maximum_number_of_expansions, list_of_all_boards,
                   parent_index, frontier_indices, number_of_expanded_boards,
                   best_board_index, neighbor_boards, index, path_indices,
                   path_of_boards>>
    /\ UNCHANGED board_vars

NextRerun == Next \/ Reinvoke

RerunSpec == Init /\ [][NextRerun]_vars

----------------------------------------------------------------------------
(* The pure board functions applied to valid boards. *)

search_idle ==
    /\ starting_board = <<>>
    /\ maximum_number_of_expansions = 0
    /\ list_of_all_boards = <<>>
    /\ parent_index = <<>>
    /\ frontier_indices = <<>>
    /\ number_of_expanded_boards = 0
    /\ best_board_index = 0
    /\ neighbor_boards = <<>>
    /\ index = 0
    /\ path_indices = <<>>
    /\ path_of_boards = <<>>
    /\ pc = "idle"
    /\ invocation = 0
    /\ history = <<>>
    /\ previous = [trace |-> <<>>, outcome |-> "none", path |-> <<>>, count |-> 0]

\* The neighbors of every board of a list of neighbors; <<>> stands for a call
\* that raises.
neighbors_of_each(boards) ==
    [k \in 1..Len(boards) |->
        IF neighbors_raise(boards[k])
        THEN <<>>
        ELSE generate_all_neighbor_boards(boards[k])]

\* The score of every board of a list of boards.
scores_of_each(boards) ==
    [k \in 1..Len(boards) |-> compute_manhattan_total(boards[k])]

InitBoards ==
    /\ search_idle
    /\ board \in SeedBoards
    /\ exchanges = 0
    /\ score = compute_manhattan_total(board)
    /\ neighbors_of_board = generate_all_neighbor_boards(board)
    /\ inverse_neighbors = neighbors_of_each(neighbors_of_board)
    /\ neighbor_scores = scores_of_each(neighbors_of_board)

\* Another valid board is given: two cells of the board are exchanged, and the
\* functions are applied to the result.
Exchange ==
    /\ exchanges < MaxExchanges
    /\ \E p \in Positions : \E q \in Positions :
           /\ p < q
           /\ board' = Exchanged(board, p, q)
    /\ exchanges' = exchanges + 1
    /\ score' = compute_manhattan_total(board')
    /\ neighbors_of_board' = generate_all_neighbor_boards(board')
    /\ inverse_neighbors' = neighbors_of_each(neighbors_of_board')
    /\ neighbor_scores' = scores_of_each(neighbors_of_board')
    /\ UNCHANGED search_vars

BoardSpec == InitBoards /\ [][Exchange]_vars

----------------------------------------------------------------------------
(* The returned values. *)

SUCCEEDED == pc = "returned_path"
EXHAUSTED == pc = "returned_none"

\* The board between two_slides_board and the goal.
one_slide_board == <<1, 2, 3, 4, 5, 6, 7, 8, 9, 10, 11, 12, 13, 14, 0, 15>>

\* The cell holding the blank of a valid board.
BlankCell(b) == CHOOSE p \in Positions : b[p + 1] = 0

CornerCells == {0, 3, 12, 15}
InteriorCells == {5, 6, 9, 10}

\* How many cells are next to cell p.
LegalMoves(p) == IF p \in CornerCells THEN 2 ELSE IF p \in InteriorCells THEN 4 ELSE 3

Elements(l) == {l[k] : k \in 1..Len(l)}

----------------------------------------------------------------------------
\* C1: a returned path is non-empty, starts at the start board, ends at the
\* goal board, and each board of it is one legal slide (the blank exchanged
\* with an adjacent tile, every other cell unchanged) away from the one before.
C1_PathIsChainOfSlides ==
    SUCCEEDED =>
        /\ Len(path_of_boards) >= 1
        /\ path_of_boards[1] = starting_board
        /\ path_of_boards[Len(path_of_boards)] = GOAL_BOARD
        /\ \A k \in 1..(Len(path_of_boards) - 1) :
               path_of_boards[k + 1] \in Slides(path_of_boards[k])

C1_Witness ==
    /\ SUCCEEDED
    /\ Len(path_of_boards) >= 5
    /\ starting_board \in StartBoards

\* C2: the expansion counter never exceeds the expansion limit, in every state
\* of the search and so in both returns.
C2_CounterWithinLimit ==
    number_of_expanded_boards <= maximum_number_of_expansions

C2_Witness ==
    /\ EXHAUSTED
    /\ maximum_number_of_expansions > 1
    /\ number_of_expanded_boards = maximum_number_of_expansions
    /\ Len(frontier_indices) > 0

\* C3 as stated: on [1..13, 0, 14, 15] with the default limit the search
\* returns the path <<start, goal>> and the expansion count 1.
C3_AsStated ==
    (/\ starting_board = two_slides_board
     /\ maximum_number_of_expansions = DEFAULT_LIMIT
     /\ pc \in Returned)
    => /\ SUCCEEDED
       /\ path_of_boards = <<two_slides_board, GOAL_BOARD>>
       /\ number_of_expanded_boards = 1

\* C3, amended: on [1..13, 0, 14, 15], two slides away from the goal, with the
\* default limit or any limit of at least 3 the search returns the path of
\* length 3 <<start, [1..13, 14, 0, 15], goal>> and the expansion count 3.
C3_TwoSlidesTakeThreeExpansions ==
    (/\ starting_board = two_slides_board
     /\ maximum_number_of_expansions >= 3
     /\ pc \in Returned)
    => /\ SUCCEEDED
       /\ path_of_boards = <<two_slides_board, one_slide_board, GOAL_BOARD>>
       /\ number_of_expanded_boards = 3

C3_Witness ==
    /\ starting_board = two_slides_board
    /\ maximum_number_of_expansions = DEFAULT_LIMIT
    /\ SUCCEEDED
    /\ Len(path_of_boards) = 3

\* C4: on the goal board with a limit of at least 1 the search returns the
\* path holding only that board and the expansion count 1; no neighbor is
\* generated and the registry holds only the start board throughout.
C4_SolvedBoardOneExpansion ==
    (/\ starting_board = GOAL_BOARD
     /\ maximum_number_of_expansions >= 1
     /\ pc \in Returned)
    => /\ SUCCEEDED
       /\ path_of_boards = <<GOAL_BOARD>>
       /\ number_of_expanded_boards = 1
       /\ list_of_all_boards = <<starting_board>>
       /\ neighbor_boards = <<>>
       /\ \A k \in 1..Len(history) : history[k].registry = <<starting_board>>

C4_Witness ==
    /\ starting_board = GOAL_BOARD
    /\ maximum_number_of_expansions = 1
    /\ SUCCEEDED
    /\ number_of_expanded_boards = 1

\* C5: with the limit 0 the search returns no path and the count 0, also on
\* the goal board; the goal test, and so the walk and the return of a path,
\* happen only once a selected board has been counted.
C5_LimitZeroReturnsNone ==
    /\ (maximum_number_of_expansions = 0 /\ pc \in Returned)
           => /\ EXHAUSTED
              /\ path_of_boards = <<>>
              /\ number_of_expanded_boards = 0
    /\ pc \in {"goal_test", "walk", "returned_path"}
           => /\ number_of_expanded_boards >= 1
              /\ \A k \in 1..Len(frontier_indices) : frontier_indices[k] # best_board_index

C5_Witness ==
    /\ starting_board = GOAL_BOARD
    /\ maximum_number_of_expansions = 0
    /\ EXHAUSTED
    /\ number_of_expanded_boards = 0

\* C6: the Manhattan total of a valid board is at least 0, and is 0 exactly
\* when the board is the goal board.
C6_ManhattanZeroIffGoal ==
    pc = "idle" =>
        /\ score \in Nat
        /\ score = 0 <=> board = GOAL_BOARD

C6_Witness ==
    /\ pc = "idle"
    /\ exchanges = 1
    /\ board = GOAL_BOARD
    /\ score = 0

\* C7: a valid board has one neighbor per cell next to its blank: 2 with the
\* blank in a corner, 3 on another edge cell, 4 on an interior cell; never 0
\* and never more than 4, and no two of them equal.
C7_NeighborCount ==
    pc = "idle" =>
        /\ Len(neighbors_of_board) = LegalMoves(BlankCell(board))
        /\ Len(neighbors_of_board) \in 1..4
        /\ \A j \in 1..Len(neighbors_of_board) : \A k \in 1..Len(neighbors_of_board) :
               j # k => neighbors_of_board[j] # neighbors_of_board[k]

C7_Witness ==
    /\ pc = "idle"
    /\ exchanges = 1
    /\ BlankCell(board) \in CornerCells
    /\ Len(neighbors_of_board) = 2

\* C8: the slide relation is symmetric: a valid board is among the neighbors
\* of each of its neighbors.
C8_SlideSymmetric ==
    pc = "idle" =>
        /\ Len(inverse_neighbors) = Len(neighbors_of_board)
        /\ \A k \in 1..Len(inverse_neighbors) : board \in Elements(inverse_neighbors[k])

C8_Witness ==
    /\ pc = "idle"
    /\ exchanges = 1
    /\ Len(neighbors_of_board) = 4
    /\ \A k \in 1..Len(inverse_neighbors) : board \in Elements(inverse_neighbors[k])

\* C9: a second call with the same start board and the same limit passes
\* through the same registry, parent links, frontier and counter, step by step,
\* and returns the same path and the same count as the first.
C9_SecondCallRepeatsFirst ==
    invocation = 2 =>
        /\ Len(history) <= Len(previous.trace)
        /\ \A k \in 1..Len(history) : history[k] = previous.trace[k]
        /\ pc \in Returned =>
               /\ history = previous.trace
               /\ pc = previous.outcome
               /\ path_of_boards = previous.path
               /\ number_of_expanded_boards = previous.count

C9_Witness ==
    /\ invocation = 2
    /\ SUCCEEDED
    /\ Len(path_of_boards) >= 5
    /\ path_of_boards = previous.path

\* C10: every call ends, and ends by returning a path with the count or by
\* returning no path with the count; it never ends in an error, and the
\* backward walk is part of what ends.
C10_Terminates ==
    /\ <>(pc \in Returned)
    /\ [](pc # "error")
    /\ [](SUCCEEDED => path_of_boards # <<>>)
    /\ [](EXHAUSTED => path_of_boards = <<>>)

C10_Witness ==
    /\ EXHAUSTED
    /\ \E b \in Scrambled(MaxScramble) : starting_board = Twin(b)
    /\ number_of_expanded_boards = MaxLimit

----------------------------------------------------------------------------
\* The score of the registry board with index i.
ScoreOf(i) == compute_manhattan_total(list_of_all_boards[i + 1])

\* The frontier as it was one step ago.
FrontierBefore == history[Len(history) - 1].frontier

\* l without its j-th element, the others in their order.
Without(l, j) == [k \in 1..(Len(l) - 1) |-> IF k < j THEN l[k] ELSE l[k + 1]]

\* C11: the entry a loop iteration removes from the frontier has a score no
\* greater than that of any frontier entry and smaller than that of every
\* entry before it (the earliest of the entries with the smallest score); it
\* is the only entry removed and the others keep their order.
C11_SelectsEarliestMinimum ==
    [][(pc = "while" /\ pc' = "goal_test") =>
          \E j \in 1..Len(frontier_indices) :
              /\ frontier_indices[j] = best_board_index'
              /\ frontier_indices' = Without(frontier_indices, j)
              /\ \A k \in 1..Len(frontier_indices) :
                     ScoreOf(frontier_indices[j]) <= ScoreOf(frontier_indices[k])
              /\ \A k \in 1..(j - 1) :
                     ScoreOf(frontier_indices[j]) < ScoreOf(frontier_indices[k])]_vars

\* A selection among several entries where the smallest score occurs twice
\* and the first frontier entry is not chosen.
C11_Witness ==
    /\ pc = "goal_test"
    /\ Len(FrontierBefore) >= 3
    /\ FrontierBefore[1] # best_board_index
    /\ \E k \in 1..Len(FrontierBefore) :
           /\ FrontierBefore[k] # best_board_index
           /\ ScoreOf(FrontierBefore[k]) = ScoreOf(best_board_index)

----------------------------------------------------------------------------
\* The neighbors of the just-expanded board that were in the registry before
\* it was expanded: the ones the loop over the neighbors has dropped.
RediscoveredIndices ==
    {i \in 0..(Len(list_of_all_boards) - 1) :
        /\ list_of_all_boards[i + 1] \in Slides(list_of_all_boards[best_board_index + 1])
        /\ parent_index[i + 1] # best_board_index}

\* C12: the registry and the parent links only grow: a step never shortens
\* them, and the board and the parent stored at an index stay what they are,
\* also when the board is met again as a neighbor of another expanded board.
C12_RegistryAppendOnly ==
    [][/\ Len(list_of_all_boards') >= Len(list_of_all_boards)
       /\ Len(parent_index') >= Len(parent_index)
       /\ \A i \in 1..Len(list_of_all_boards) :
              /\ list_of_all_boards'[i] = list_of_all_boards[i]
              /\ parent_index'[i] = parent_index[i]]_vars

\* Every neighbor of an expanded board has been visited, and one of them was
\* in the registry already, with another board as its parent.
C12_Witness ==
    /\ pc = "for_neighbor"
    /\ neighbor_boards = <<>>
    /\ number_of_expanded_boards >= 2
    /\ \E i \in RediscoveredIndices : i > 0 /\ parent_index[i + 1] # best_board_index

----------------------------------------------------------------------------
\* C13: no board is in the registry twice: a neighbor equal to a board of the
\* registry (the start board, an expanded board, a board waiting in the
\* frontier, a board appended earlier in the same expansion) is not appended.
C13_RegistryDistinct ==
    \A j \in 1..Len(list_of_all_boards) : \A k \in 1..Len(list_of_all_boards) :
        j # k => list_of_all_boards[j] # list_of_all_boards[k]

\* The start board has been met again as a neighbor of one of its own
\* neighbors, and the expansion appended fewer boards than it visited.
C13_Witness ==
    /\ pc = "for_neighbor"
    /\ neighbor_boards = <<>>
    /\ 0 \in RediscoveredIndices
    /\ Cardinality({i \in 1..Len(parent_index) : parent_index[i] = best_board_index})
           < Len(generate_all_neighbor_boards(current_board))

----------------------------------------------------------------------------
\* The steps of the call so far that counted an expansion.
SelectionSteps ==
    {k \in 2..Len(history) : history[k].counter = history[k - 1].counter + 1}

\* The registry indices step k took out of the frontier.
RemovedAt(k) == Elements(history[k - 1].frontier) \ Elements(history[k].frontier)

\* How often index i has been selected for expansion so far.
TimesSelected(i) == Cardinality({k \in SelectionSteps : i \in RemovedAt(k)})

\* C14: an entry removed from the frontier for expansion is in no later
\* frontier; every registry index is selected for expansion at most once, and
\* the frontier never holds an index twice.
C14_NeverRequeued ==
    /\ \A j \in 1..Len(frontier_indices) : \A k \in 1..Len(frontier_indices) :
           j # k => frontier_indices[j] # frontier_indices[k]
    /\ \A i \in 0..(Len(list_of_all_boards) - 1) : TimesSelected(i) <= 1
    /\ \A k \in SelectionSteps : \A i \in RemovedAt(k) :
           \A m \in k..Len(history) : i \notin Elements(history[m].frontier)
    /\ Cardinality(SelectionSteps) = number_of_expanded_boards

\* An expanded board has been met again as a neighbor of a later expanded
\* board and has stayed out of the frontier.
C14_Witness ==
    /\ pc = "for_neighbor"
    /\ neighbor_boards = <<>>
    /\ number_of_expanded_boards >= 3
    /\ \E i \in RediscoveredIndices :
           /\ TimesSelected(i) = 1
           /\ i \notin Elements(frontier_indices)

----------------------------------------------------------------------------
\* C15: in a search started from a valid board, every board of the registry,
\* and so every board the frontier refers to and every board of a returned
\* path, is a valid board: 16 cells holding each of 0..15 once.
C15_BoardsStayValid ==
    IsValidBoard(starting_board) =>
        /\ \A k \in 1..Len(list_of_all_boards) : IsValidBoard(list_of_all_boards[k])
        /\ \A k \in 1..Len(frontier_indices) :
               /\ frontier_indices[k] \in 0..(Len(list_of_all_boards) - 1)
               /\ IsValidBoard(list_of_all_boards[frontier_indices[k] + 1])
        /\ \A k \in 1..Len(path_of_boards) : IsValidBoard(path_of_boards[k])
        /\ \A k \in 1..Len(neighbor_boards) : IsValidBoard(neighbor_boards[k])

C15_Witness ==
    /\ IsValidBoard(starting_board)
    /\ SUCCEEDED
    /\ Len(list_of_all_boards) >= 12
    /\ Len(path_of_boards) >= 4
    /\ Len(frontier_indices) >= 6

----------------------------------------------------------------------------
\* C16: one slide changes the Manhattan total by exactly 1, up or down: the
\* score of every neighbor of a valid board differs from the score of the
\* board by 1, so no neighbor has the score of the board.
C16_SlideChangesScoreByOne ==
    pc = "idle" =>
        /\ Len(neighbor_scores) = Len(neighbors_of_board)
        /\ \A k \in 1..Len(neighbor_scores) : Abs(neighbor_scores[k] - score) = 1

\* A board with four neighbors, some with a greater and some with a smaller
\* score.
C16_Witness ==
    /\ pc = "idle"
    /\ exchanges = 1
    /\ Len(neighbor_scores) = 4
    /\ \E k \in 1..Len(neighbor_scores) : neighbor_scores[k] = score + 1
    /\ \E k \in 1..Len(neighbor_scores) : neighbor_scores[k] = score - 1

----------------------------------------------------------------------------
\* C17: the parent links form a tree rooted at the start board and ordered by
\* discovery: the start board has no parent; the parent of any other index i
\* is a smaller index, of a board that has been expanded (it is not in the
\* frontier) and from which the board at i is one legal slide away.  So the
\* backward walk visits strictly decreasing indices and ends at index 0.
C17_ParentTree ==
    Len(list_of_all_boards) > 0 =>
        /\ Len(parent_index) = Len(list_of_all_boards)
        /\ parent_index[1] = NO_PARENT
        /\ \A i \in 1..(Len(list_of_all_boards) - 1) :
               /\ parent_index[i + 1] \in 0..(i - 1)
               /\ parent_index[i + 1] \notin Elements(frontier_indices)
               /\ TimesSelected(parent_index[i + 1]) = 1
               /\ list_of_all_boards[i + 1]
                      \in Slides(list_of_all_boards[parent_index[i + 1] + 1])
        /\ pc = "walk" =>
               /\ \A k \in 1..(Len(path_indices) - 1) :
                      path_indices[k + 1] = parent_index[path_indices[k] + 1]
               /\ \A k \in 1..(Len(path_indices) - 1) : path_indices[k + 1] < path_indices[k]
               /\ path_indices # <<>> => index < path_indices[Len(path_indices)]
        /\ SUCCEEDED =>
               /\ path_indices[1] = 0
               /\ \A k \in 1..(Len(path_indices) - 1) : path_indices[k] < path_indices[k + 1]

\* The walk is under way through a tree with a branch at least three deep.
C17_Witness ==
    /\ pc = "walk"
    /\ Len(path_indices) >= 3
    /\ index # NO_PARENT
    /\ \E i \in 1..Len(parent_index) : parent_index[i] >= 3

----------------------------------------------------------------------------
\* Whether the goal board is in the registry, and the index it has there.
GoalKnown == \E k \in 1..Len(list_of_all_boards) : list_of_all_boards[k] = GOAL_BOARD

GoalIndex == (CHOOSE k \in 1..Len(list_of_all_boards) : list_of_all_boards[k] = GOAL_BOARD) - 1

\* The number of the expansion that discovered the goal board: the value of
\* the counter when the goal board entered the registry (0 for a start board
\* that is the goal board).
GoalDiscovery ==
    LET first == CHOOSE k \in 1..Len(history) :
                     /\ GOAL_BOARD \in Elements(history[k].registry)
                     /\ \A j \in 1..(k - 1) : GOAL_BOARD \notin Elements(history[j].registry)
    IN  history[first].counter

\* C18: the goal board never waits in the frontier.  While it is there it is
\* the only entry with score 0 and no board has been selected since it was
\* discovered; the selection of an iteration that starts with it in the
\* frontier takes it.  If it was discovered by expansion k < limit the search
\* returns a path and the count k + 1; the search returns no path with the
\* goal board in the registry only if it was discovered by the expansion
\* whose number is the limit.
C18_GoalNeverWaits ==
    (pc # "call" /\ GoalKnown) =>
        /\ GoalIndex \in Elements(frontier_indices) =>
               /\ number_of_expanded_boards = GoalDiscovery
               /\ \A k \in 1..Len(frontier_indices) :
                      frontier_indices[k] # GoalIndex => ScoreOf(frontier_indices[k]) > 0
        /\ (pc = "goal_test" /\ GoalIndex \in Elements(FrontierBefore)) =>
               /\ best_board_index = GoalIndex
               /\ number_of_expanded_boards = GoalDiscovery + 1
        /\ (pc \in Returned /\ GoalDiscovery < maximum_number_of_expansions) =>
               /\ SUCCEEDED
               /\ number_of_expanded_boards = GoalDiscovery + 1
        /\ EXHAUSTED => GoalDiscovery = maximum_number_of_expansions

\* The search has returned no path with the goal board in the frontier: the
\* last expansion the limit allowed discovered it.
C18_Witness ==
    /\ EXHAUSTED
    /\ GoalKnown
    /\ GoalIndex \in Elements(frontier_indices)
    /\ maximum_number_of_expansions >= 2
    /\ GoalDiscovery = maximum_number_of_expansions

----------------------------------------------------------------------------
\* C19: every board of a returned path has been expanded exactly once, so no
\* board is on the path twice and the path has at most as many boards as
\* expansions were counted: the number of moves is less than the count.
C19_PathWithinExpansions ==
    SUCCEEDED =>
        /\ Len(path_indices) = Len(path_of_boards)
        /\ \A k \in 1..Len(path_indices) : TimesSelected(path_indices[k]) = 1
        /\ \A j \in 1..Len(path_of_boards) : \A k \in 1..Len(path_of_boards) :
               j # k => path_of_boards[j] # path_of_boards[k]
        /\ Len(path_of_boards) <= number_of_expanded_boards
        /\ Len(path_of_boards) - 1 < number_of_expanded_boards

\* A returned path with fewer boards than expansions: some expanded board is
\* not on it.
C19_Witness ==
    /\ SUCCEEDED
    /\ Len(path_of_boards) >= 3
    /\ Len(path_of_boards) < number_of_expanded_boards
    /\ \E i \in 0..(Len(list_of_all_boards) - 1) :
           /\ TimesSelected(i) = 1
           /\ i \notin Elements(path_indices)

====
